---- MODULE Spec2Model ----
(***************************************************************************)
(* A model of the drivable-portfolio application: the vehicle controller,  *)
(* the crate physics, the camera zoom, the overlay panels and the AI       *)
(* gateway.                                                                *)
(*                                                                         *)
(* Numbers.  The program computes in IEEE doubles; the model computes in   *)
(* fixed point and rounds every product to the nearest unit:               *)
(*    lengths     in 1/100 of a world unit        (0.5  -> 50)             *)
(*    velocities  in 1/100 of a world unit per s  (40   -> 4000)           *)
(*    frame delta in milliseconds                 (1/60 -> 16)             *)
(*    angles      in milliradians                 (3.0 rad/s -> 3 per ms)  *)
(*    sin, cos    in 1/1000                                                *)
(*    zoom        in 1/100, wheel deltaY in pixels (0.02 -> 2 per pixel)   *)
(***************************************************************************)
EXTENDS Integers, Sequences, FiniteSets, TLC

VARIABLES
    keys,        \* useCarController: keys.current, the set of held key codes
    position,    \* useCarController: position.current
    velocity,    \* useCarController: velocity.current
    rotation,    \* useCarController: the rotation state
    isBraking,   \* useCarController: isBraking.current
    crates,      \* CrateSystem: crates.current (position and velocity of each)
    frames,      \* number of rendered frames so far (bounds the exploration)
    lastDelta,   \* history: the delta of the last rendered frame (0: none yet)
    activeSection, \* App: the activeSection state
    distance,    \* CameraHandler: distance.current
    lastWheel,   \* history: the last wheel event and the state it met
    mounts,      \* number of overlay panels mounted so far; the last is the live one
    veo,         \* VeoStudio: file and state of the mounted panel
    img,         \* ImageEditor: file, prompt and state of the mounted panel
    hasKey,      \* whether an API key is selected (what checkApiKey answers)
    tasks,       \* the handleGenerate calls made so far, finished ones included
    active,      \* SectionTrigger: the active state of each zone
    enterLog     \* history: the Enter presses and the section-entered events

worldVars == <<keys, position, velocity, rotation, isBraking, crates, frames,
               lastDelta, active>>

appVars == <<activeSection, enterLog>>

cameraVars == <<distance, lastWheel>>

panelVars == <<mounts, veo, img, hasKey, tasks>>

vars == <<worldVars, appVars, cameraVars, panelVars>>

(***************************************************************************)
(* Arithmetic                                                              *)
(***************************************************************************)
Abs(a) == IF a < 0 THEN -a ELSE a

Sign(a) == IF a > 0 THEN 1 ELSE IF a < 0 THEN -1 ELSE 0

Min(a, b) == IF a < b THEN a ELSE b

Max(a, b) == IF a > b THEN a ELSE b

\* a / b rounded to the nearest integer, halves away from zero (b > 0)
RoundDiv(a, b) ==
    IF a >= 0 THEN (2 * a + b) \div (2 * b) ELSE -((2 * (-a) + b) \div (2 * b))

\* F(e), with e computed once (an operator's argument is otherwise computed
\* again at each of its uses)
With(e, F(_)) == CHOOSE r \in {F(x) : x \in {e}} : TRUE

RECURSIVE SqrtIter(_, _, _)
SqrtIter(n, lo, hi) ==
    IF lo >= hi THEN lo
    ELSE With((lo + hi + 1) \div 2,
              LAMBDA mid : IF mid * mid <= n THEN SqrtIter(n, mid, hi)
                           ELSE SqrtIter(n, lo, mid - 1))

\* floor of the square root
Sqrt(n) == With(n, LAMBDA m : SqrtIter(m, 0, Min(m, 46340)))

\* angle (mrad) brought into [-pi/2, pi/2] with the same sine
ReduceAngle(a) ==
    LET m == a % 6283
    IN  IF m <= 1571 THEN m
        ELSE IF m <= 4712 THEN 3142 - m
        ELSE m - 6283

\* Math.sin on milliradians, in 1/1000: the Taylor polynomial of degree 7
Sin(a) ==
    LET x  == ReduceAngle(a)
        x2 == RoundDiv(x * x, 1000)
        t3 == RoundDiv(x * x2, 6000)
        t5 == RoundDiv(t3 * x2, 20000)
        t7 == RoundDiv(t5 * x2, 42000)
    IN  x - t3 + t5 - t7

\* Math.cos on milliradians, in 1/1000
Cos(a) == Sin(a + 1571)

(***************************************************************************)
(* THREE.Vector3                                                           *)
(***************************************************************************)
Vec(a, b, c) == [x |-> a, y |-> b, z |-> c]

VAdd(u, v) == Vec(u.x + v.x, u.y + v.y, u.z + v.z)

VSub(u, v) == Vec(u.x - v.x, u.y - v.y, u.z - v.z)

\* v.multiplyScalar(n / d)
VScale(v, n, d) == Vec(RoundDiv(v.x * n, d), RoundDiv(v.y * n, d), RoundDiv(v.z * n, d))

\* v.length(); components beyond 20000 are measured at a tenth of the resolution
VLength(v) ==
    With(v, LAMBDA w :
        IF Max(Abs(w.x), Max(Abs(w.y), Abs(w.z))) > 20000
        THEN 10 * Sqrt((w.x \div 10) * (w.x \div 10) + (w.y \div 10) * (w.y \div 10)
                       + (w.z \div 10) * (w.z \div 10))
        ELSE Sqrt(w.x * w.x + w.y * w.y + w.z * w.z))

\* v.normalize(), in 1/1000: divideScalar(length() || 1)
VNormalize(v) ==
    With(VLength(v), LAMBDA len : IF len = 0 THEN v ELSE VScale(v, 1000, len))

(***************************************************************************)
(* Bounds of the exploration                                               *)
(***************************************************************************)
\* frames explored from the start of the scene
MaxFrames == 2

\* crates of the random piles that are modelled (the program makes 15)
NumScattered == 1

\* columns of the crate wall that are modelled (the program makes 11)
NumWallColumns == 1

\* frame deltas in ms: a 60 fps frame, and the first frame after a 1.5 s stall
Deltas == {16, 1500}

\* the key codes the user presses
KeyCodes == {"ArrowUp", "ArrowDown", "ArrowLeft", "ShiftLeft", "KeyR"}

\* positions Math.random() can give a crate of the random piles (x, z)
RandomSpots == {<<90, 200>>, <<1500, 3000>>}

(***************************************************************************)
(* Vehicle controller                                                      *)
(***************************************************************************)
\* mutant: the reset puts the vehicle on the ground plane
OriginOnGround == Vec(0, 0, 0)

Origin == Vec(0, 50, 0)

Zero == Vec(0, 0, 0)

Held(ks, codes) == ks \cap codes # {}

IsShiftPressed(ks) == Held(ks, {"ShiftLeft", "ShiftRight"})

FwdSpeed(ks) == IF IsShiftPressed(ks) THEN 8000 ELSE 4000

RevSpeed == 3000

Throttle(ks) ==
    (IF Held(ks, {"ArrowUp", "KeyW"}) THEN 1 ELSE 0)
    - (IF Held(ks, {"ArrowDown", "KeyS"}) THEN 1 ELSE 0)

\* mutant: reversing accelerates like driving forward, boost included
AccAmountForward(ks) == FwdSpeed(ks)

AccAmount(ks) == IF Throttle(ks) > 0 THEN FwdSpeed(ks) ELSE RevSpeed

\* the two setRotation updaters of a frame, applied to r
Steer(ks, r, delta) ==
    LET rotSpeed == 3 * delta
        r1 == IF Held(ks, {"ArrowLeft", "KeyA"}) THEN r + rotSpeed ELSE r
    IN  IF Held(ks, {"ArrowRight", "KeyD"}) THEN r1 - rotSpeed ELSE r1

\* velocity after the throttle of a frame
ApplyThrottle(v, ks, rot, delta) ==
    LET throttle == Throttle(ks)
        gain     == RoundDiv(throttle * AccAmount(ks) * delta, 1000)
    IN  IF throttle # 0
        THEN Vec(v.x - RoundDiv(Sin(rot) * gain, 1000),
                 v.y,
                 v.z - RoundDiv(Cos(rot) * gain, 1000))
        ELSE v

bound == 9500

\* the tentative position: position + velocity * delta
Advance(p, v, delta) == VAdd(p, VScale(v, delta, 1000))

OutOfBound(c) == Abs(c) > bound

\* mutant: the bounds check without the clamp
ClampAxisMissing(c) == c

\* newPos.c = Math.sign(newPos.c) * bound
ClampAxis(c) == IF OutOfBound(c) THEN Sign(c) * bound ELSE c

\* mutant: a bounce that keeps the whole speed
BounceElastic(c) == -c

\* velocity.c *= -0.5
Bounce(c) == -RoundDiv(c, 2)

BounceAxis(c, vc) == IF OutOfBound(c) THEN Bounce(vc) ELSE vc

\* velocity.multiplyScalar(friction)
\* mutant: a weaker drag
FrictionWeak(v) == VScale(v, 99, 100)

Friction(v) == VScale(v, 97, 100)

CarControllerFrame(delta) ==
    IF "KeyR" \in keys
    THEN /\ velocity' = Zero
         /\ position' = Origin
         /\ rotation' = 0
         /\ UNCHANGED isBraking
    ELSE LET pre    == ApplyThrottle(velocity, keys, rotation, delta)
             newPos == Advance(position, pre, delta)
         IN  /\ rotation' = Steer(keys, rotation, delta)
             /\ isBraking' = (Throttle(keys) < 0)
             /\ position' = Vec(ClampAxis(newPos.x), newPos.y, ClampAxis(newPos.z))
             /\ velocity' = Friction(Vec(BounceAxis(newPos.x, pre.x), pre.y,
                                         BounceAxis(newPos.z, pre.z)))

(***************************************************************************)
(* Crate physics                                                           *)
(***************************************************************************)
RestY == 50

CarRadius == 200

CrateMargin == 80

minDist == CarRadius + CrateMargin

\* the wall: for x in -5..5, y in 0..2, at (x * 1.5 - 20, 0.5 + y * 1.1, 15)
WallCrates ==
    [i \in 1..(3 * NumWallColumns) |->
        LET col == -5 + ((i - 1) \div 3)
            row == (i - 1) % 3
        IN  [position |-> Vec(col * 150 - 2000, 50 + row * 110, 1500),
             velocity |-> Zero]]

\* a crate of the random piles at the spot Math.random() gave it
ScatteredCrate(spot) == [position |-> Vec(spot[1], 50, spot[2]), velocity |-> Zero]

\* crate.position.distanceTo(carPos) < minDist
Colliding(cratePos, carPos) ==
    LET d == VSub(cratePos, carPos)
    IN  /\ Abs(d.x) < minDist
        /\ Abs(d.y) < minDist
        /\ Abs(d.z) < minDist
        /\ d.x * d.x + d.y * d.y + d.z * d.z < minDist * minDist

\* mutant: ground contact that does not snap the crate to the resting height
CrateFallNoSnap(c, delta) ==
    LET v == IF c.position.y > RestY
             THEN Vec(c.velocity.x, c.velocity.y - 2 * delta, c.velocity.z)
             ELSE VScale(Vec(c.velocity.x, 0, c.velocity.z), 90, 100)
    IN  [position |-> Advance(c.position, v, delta), velocity |-> v]

\* step 1: gravity or ground contact, then crate.position.add(velocity * delta)
CrateFall(c, delta) ==
    LET v == IF c.position.y > RestY
             THEN Vec(c.velocity.x, c.velocity.y - 2 * delta, c.velocity.z)
             ELSE VScale(Vec(c.velocity.x, 0, c.velocity.z), 90, 100)
        p == IF c.position.y > RestY THEN c.position
             ELSE Vec(c.position.x, RestY, c.position.z)
    IN  [position |-> Advance(p, v, delta), velocity |-> v]

\* the vector the source names direction, forceVec: multiplyScalar scales
\* direction in place and returns it, and forceVec.y is then overwritten
ForceVec(cratePos, carPos, carVel) ==
    With(VNormalize(VSub(cratePos, carPos)), LAMBDA direction :
    With(RoundDiv(VLength(carVel) * 3, 2), LAMBDA impactForce :
        Vec(RoundDiv(direction.x * impactForce, 1000),
            Min(RoundDiv(impactForce, 2), 1000),
            RoundDiv(direction.z * impactForce, 1000))))

\* direction.clone().multiplyScalar(minDist - dist), direction being forceVec
PushOut(cratePos, carPos, carVel) ==
    With(VLength(VSub(cratePos, carPos)), LAMBDA dist :
    With(ForceVec(cratePos, carPos, carVel), LAMBDA forceVec :
        VScale(forceVec, minDist - dist, 100)))

\* step 2: collision with the car
CrateCollide(c, carPos, carVel) ==
    IF Colliding(c.position, carPos)
    THEN [position |-> VAdd(c.position, PushOut(c.position, carPos, carVel)),
          velocity |-> VAdd(c.velocity, ForceVec(c.position, carPos, carVel))]
    ELSE c

CrateStep(c, carPos, carVel, delta) ==
    With(CrateFall(c, delta), LAMBDA fallen : CrateCollide(fallen, carPos, carVel))

\* mutant: a crate the vehicle hits is destroyed
CrateSystemFrameDestroying(delta) ==
    LET kept == SelectSeq(crates,
                    LAMBDA c : ~Colliding(CrateFall(c, delta).position, position))
    IN  crates' = [i \in DOMAIN kept |-> CrateStep(kept[i], position, velocity, delta)]

CrateSystemFrame(delta) ==
    crates' = [i \in DOMAIN crates |-> CrateStep(crates[i], position, velocity, delta)]

(***************************************************************************)
(* The proximity triggers                                                  *)
(***************************************************************************)
\* mutant: the two generation zones lie 6 apart
TriggersCrowded ==
    << [pos |-> Vec(0, 0, -2500),     section |-> "ABOUT"],
       [pos |-> Vec(2500, 0, 0),      section |-> "SKILLS"],
       [pos |-> Vec(0, 0, 2500),      section |-> "CONTACT"],
       [pos |-> Vec(-2500, 0, -800),  section |-> "VEO_STUDIO"],
       [pos |-> Vec(-2500, 0, -200),  section |-> "IMAGE_EDITOR"] >>

\* SceneContent.triggers, in the configured order
Triggers ==
    << [pos |-> Vec(0, 0, -2500),     section |-> "ABOUT"],
       [pos |-> Vec(2500, 0, 0),      section |-> "SKILLS"],
       [pos |-> Vec(0, 0, 2500),      section |-> "CONTACT"],
       [pos |-> Vec(-2500, 0, -800),  section |-> "VEO_STUDIO"],
       [pos |-> Vec(-2500, 0, 800),   section |-> "IMAGE_EDITOR"] >>

ActivationRadius == 600

\* mutant: a square zone instead of a round one
InRangeBox(t, carPos) ==
    /\ Abs(t.pos.x - carPos.x) < ActivationRadius
    /\ Abs(t.pos.z - carPos.z) < ActivationRadius

\* t.pos.distanceTo(carApi.position.current) < 6
InRange(t, carPos) ==
    LET d == VSub(t.pos, carPos)
    IN  /\ Abs(d.x) < ActivationRadius
        /\ Abs(d.y) < ActivationRadius
        /\ Abs(d.z) < ActivationRadius
        /\ d.x * d.x + d.y * d.y + d.z * d.z < ActivationRadius * ActivationRadius

\* mutant: the scan finds nothing
ClosestNone(carPos) == {}

\* triggers.find(...): the indices of the triggers in range; the first is taken
Closest(carPos) == {i \in DOMAIN Triggers : InRange(Triggers[i], carPos)}

First(S) == CHOOSE i \in S : \A j \in S : i <= j

\* the number of zones
Zones == DOMAIN Triggers

\* SectionTrigger.useFrame of every zone: setActive(dist < 6)
SectionTriggerFrame ==
    active' = [i \in Zones |-> InRange(Triggers[i], position)]

(***************************************************************************)
(* The scene                                                               *)
(***************************************************************************)
InitCar ==
    /\ keys = {}
    /\ velocity = Zero
    /\ rotation = 0
    /\ isBraking = FALSE
    /\ frames = 0
    /\ lastDelta = 0
    /\ active = [i \in Zones |-> FALSE]

InitWorld ==
    /\ InitCar
    /\ position = Origin
    /\ \E spots \in [1..NumScattered -> RandomSpots] :
          crates = WallCrates \o [i \in 1..NumScattered |-> ScatteredCrate(spots[i])]

\* onKeyDown: keys.current[e.code] = true
KeyDown ==
    \E k \in KeyCodes :
        /\ keys' = keys \cup {k}
        /\ UNCHANGED <<position, velocity, rotation, isBraking, crates, frames,
                       lastDelta, active>>
        /\ UNCHANGED <<activeSection, distance, lastWheel, mounts, veo, img, hasKey, tasks>>
        /\ UNCHANGED enterLog

\* onKeyUp: keys.current[e.code] = false
KeyUp ==
    \E k \in KeyCodes :
        /\ keys' = keys \ {k}
        /\ UNCHANGED <<position, velocity, rotation, isBraking, crates, frames,
                       lastDelta, active>>
        /\ UNCHANGED <<activeSection, distance, lastWheel, mounts, veo, img, hasKey, tasks>>
        /\ UNCHANGED enterLog

\* one rendered frame: the useFrame callbacks run with the same delta; the
\* crate system and the triggers (child components) subscribed before the
\* controller, so they read the position the last frame left
Frame ==
    \E delta \in Deltas :
        /\ frames < MaxFrames
        /\ frames' = frames + 1
        /\ lastDelta' = delta
        /\ CrateSystemFrame(delta)
        /\ SectionTriggerFrame
        /\ CarControllerFrame(delta)
        /\ UNCHANGED keys
        /\ UNCHANGED <<activeSection, distance, lastWheel, mounts, veo, img, hasKey, tasks>>
        /\ UNCHANGED enterLog

\* a frame while nobody touches the keyboard
IdleFrame ==
    \E delta \in Deltas :
        /\ keys = {}
        /\ lastDelta' = delta
        /\ CrateSystemFrame(delta)
        /\ SectionTriggerFrame
        /\ CarControllerFrame(delta)
        /\ UNCHANGED <<keys, frames>>
        /\ UNCHANGED <<activeSection, distance, lastWheel, mounts, veo, img, hasKey, tasks>>
        /\ UNCHANGED enterLog

(***************************************************************************)
(* App and the camera                                                      *)
(***************************************************************************)
\* mutant: the scene is never told that an overlay is open
isOverlayOpenNever == FALSE

\* App: isOverlayOpen={activeSection !== AppSection.HOME}
isOverlayOpen == activeSection # "HOME"

\* places where the vehicle has been parked: the start, and three zone centres
ParkSpots == {Origin, Vec(0, 50, -2500), Vec(-2500, 50, -800), Vec(-2500, 50, 800)}

\* wheel deltaY values, in pixels
WheelDeltas == {-2000, -900, 900, 2000}

MinDistance == 500

MaxDistance == 4000

\* mutant: a clamp without the upper bound
ClampBelow(value, lo, hi) == Max(lo, value)

\* THREE.MathUtils.clamp(value, min, max) = max(min, min(max, value))
Clamp(value, lo, hi) == Max(lo, Min(hi, value))

\* Enter presses explored
MaxEnters == 2

InitApp ==
    /\ activeSection = "HOME"
    /\ enterLog = [presses |-> 0, events |-> 0, section |-> "none"]

InitCamera ==
    /\ distance = 2000
    /\ lastWheel = [deltaY |-> 0, from |-> 2000, open |-> FALSE]

\* onWheel
Wheel ==
    \E deltaY \in WheelDeltas :
        /\ distance' = IF isOverlayOpen THEN distance
                       ELSE Clamp(distance + deltaY * 2, MinDistance, MaxDistance)
        /\ lastWheel' = [deltaY |-> deltaY, from |-> distance, open |-> isOverlayOpen]
        /\ UNCHANGED <<worldVars, appVars, panelVars>>

(***************************************************************************)
(* The AI gateway                                                          *)
(***************************************************************************)
Null == "null"

Undefined == "undefined"

\* polls that may find the operation still running
MaxPolls == 2

\* parts in the content of a candidate
MaxParts == 2

\* handleGenerate calls explored
MaxSubmits == 1

\* overlay panels mounted
MaxMounts == 2

\* clicks on the button of a panel that stays open
MaxClicks == 2

\* the base64 data of the inline images a response can carry
ImageData == {"A", "B"}

\* the videos a download can deliver
Videos == {"V1", "V2"}

\* the message of an error thrown by the SDK or by fetch
NetworkError == "Network error"

\* a response part: some text, or inline data
TextPart == [inlineData |-> Null]

ImagePart(d) == [inlineData |-> d]

Parts == {TextPart} \cup {ImagePart(d) : d \in ImageData}

\* a candidate: without content, or with the parts of its content
Candidates ==
    {[content |-> FALSE, parts |-> <<>>]}
        \cup {[content |-> TRUE, parts |-> p] : p \in UNION {[1..n -> Parts] : n \in 0..MaxParts}}

\* response.candidates: none, one, or two of which the second holds an image
Responses ==
    {<<>>} \cup {<<c>> : c \in Candidates}
           \cup {<<c, [content |-> TRUE, parts |-> <<ImagePart("B")>>]>> : c \in Candidates}

\* response.candidates?.[0]?.content?.parts || []
FirstParts(response) ==
    IF Len(response) = 0 THEN <<>>
    ELSE IF ~response[1].content THEN <<>> ELSE response[1].parts

DataUrl(base64) == "data:image/png;base64," \o base64

BlobUrl(video) == "blob:" \o video

Ok(value) == [ok |-> TRUE, value |-> value]

Err(message) == [ok |-> FALSE, value |-> message]

NoResult == [ok |-> FALSE, value |-> Null]

\* mutant: the scan returns the last part with inline data
RECURSIVE ScanPartsLast(_, _)
ScanPartsLast(parts, i) ==
    IF i < 1 THEN Err("No image generated in response")
    ELSE IF parts[i].inlineData # Null THEN Ok(DataUrl(parts[i].inlineData))
    ELSE ScanPartsLast(parts, i - 1)

\* the for loop of editImage from part i on, and the throw after it
RECURSIVE ScanParts(_, _)
ScanParts(parts, i) ==
    IF i > Len(parts) THEN Err("No image generated in response")
    ELSE IF parts[i].inlineData # Null THEN Ok(DataUrl(parts[i].inlineData))
    ELSE ScanParts(parts, i + 1)

\* mutant of ExtractImage
ExtractImageLast(response) == ScanPartsLast(FirstParts(response), Len(FirstParts(response)))

\* editImage, from the response on
ExtractImage(response) == ScanParts(FirstParts(response), 1)

\* mutant: the polling loop runs while the operation is done
KeepPollingInverted(operation) == operation.done

\* while (!operation.done)
KeepPolling(operation) == ~operation.done

(***************************************************************************)
(* The overlay panels                                                      *)
(***************************************************************************)
VeoInitial ==
    [file |-> FALSE,
     state |-> [isGenerating |-> FALSE, videoUrl |-> Null, error |-> Null, progress |-> ""]]

ImgInitial ==
    [file |-> FALSE, prompt |-> "",
     state |-> [isGenerating |-> FALSE, resultImageUrl |-> Null, error |-> Null]]

Prompts == {"", "remove the background"}

SectionOf(kind) == IF kind = "VEO" THEN "VEO_STUDIO" ELSE "IMAGE_EDITOR"

\* mutant: a panel of the same kind counts as the panel that made the call
MountedBySection(t) == activeSection = SectionOf(tasks[t].kind)

\* the panel that made call t is still the mounted one
Mounted(t) == activeSection = SectionOf(tasks[t].kind) /\ tasks[t].inst = mounts

Running(t) == tasks[t].pc # "done"

NewTask(kind, pc, snapshot) ==
    [kind |-> kind, inst |-> mounts, pc |-> pc, snap |-> snapshot, called |-> 0,
     operation |-> [done |-> FALSE, uri |-> FALSE], waits |-> 0, queries |-> 0,
     fetched |-> Null, blob |-> Null, responded |-> FALSE, response |-> <<>>,
     result |-> NoResult]

InitPanels ==
    /\ mounts = 0
    /\ veo = VeoInitial
    /\ img = ImgInitial
    /\ tasks = <<>>

\* the Enter handler of SceneContent: the first trigger in range is entered.
\* A panel other than the one on screen is mounted afresh.
EnterKey ==
    LET near == Closest(position)
        section == IF near = {} THEN activeSection ELSE Triggers[First(near)].section
    IN  /\ enterLog.presses < MaxEnters
        /\ enterLog' = IF near = {}
                       THEN [enterLog EXCEPT !.presses = @ + 1]
                       ELSE [presses |-> enterLog.presses + 1,
                             events |-> enterLog.events + 1, section |-> section]
        /\ keys' = keys \cup {"Enter"}
        /\ activeSection' = section
        /\ IF section # activeSection
           THEN /\ mounts < MaxMounts
                /\ mounts' = mounts + 1
                /\ veo' = VeoInitial
                /\ img' = ImgInitial
           ELSE UNCHANGED <<mounts, veo, img>>
        /\ UNCHANGED <<position, velocity, rotation, isBraking, crates, frames, lastDelta,
                       active>>
        /\ UNCHANGED <<cameraVars, hasKey, tasks>>

\* the close button of the overlay: onClose sets the section to HOME and the
\* panel is unmounted, which drops its state
CloseOverlay ==
    /\ isOverlayOpen
    /\ activeSection' = "HOME"
    /\ veo' = VeoInitial
    /\ img' = ImgInitial
    /\ UNCHANGED <<worldVars, cameraVars, mounts, hasKey, tasks, enterLog>>

\* the file input of the mounted panel: setFile
SelectFile ==
    /\ \/ activeSection = "VEO_STUDIO" /\ ~veo.file /\ veo' = [veo EXCEPT !.file = TRUE]
          /\ UNCHANGED img
       \/ activeSection = "IMAGE_EDITOR" /\ ~img.file /\ img' = [img EXCEPT !.file = TRUE]
          /\ UNCHANGED veo
    /\ UNCHANGED <<worldVars, appVars, cameraVars, mounts, hasKey, tasks>>

\* the prompt input of the image editor: setPrompt
SetPrompt ==
    /\ activeSection = "IMAGE_EDITOR"
    /\ \E text \in Prompts : text # img.prompt /\ img' = [img EXCEPT !.prompt = text]
    /\ UNCHANGED <<worldVars, appVars, cameraVars, mounts, veo, hasKey, tasks>>

\* mutant: the key check always passes
checkApiKeyAlways == TRUE

\* checkApiKey: whether a key is selected, or configured in the environment
checkApiKey == hasKey

\* setState of the panel that made call t; nothing when it was unmounted
VeoSetState(t, state) == IF Mounted(t) THEN [veo EXCEPT !.state = state] ELSE veo

ImgSetState(t, state) == IF Mounted(t) THEN [img EXCEPT !.state = state] ELSE img

\* VeoStudio.handleGenerate up to its first await; the button is enabled.
\* budget bounds the calls explored
VeoSubmit(budget) ==
    /\ activeSection = "VEO_STUDIO"
    /\ veo.file /\ ~veo.state.isGenerating
    /\ Len(tasks) < budget
    /\ tasks' = Append(tasks, NewTask("VEO", "checkApiKey", veo.state))
    /\ UNCHANGED <<worldVars, appVars, cameraVars, mounts, veo, img, hasKey>>

VeoClick == VeoSubmit(MaxSubmits)

\* checkApiKey answered: without a key the selection dialog is opened, with
\* one the state is set and generateVideo is called
VeoKeyChecked(t) ==
    /\ tasks[t].pc = "checkApiKey"
    /\ IF checkApiKey
       THEN /\ veo' = VeoSetState(t, [tasks[t].snap EXCEPT
                           !.isGenerating = TRUE, !.error = Null,
                           !.progress = "Generating video (this may take a minute)..."])
            /\ tasks' = [tasks EXCEPT ![t].pc = "readFile", ![t].called = @ + 1]
       ELSE /\ tasks' = [tasks EXCEPT ![t].pc = "promptApiKey"]
            /\ UNCHANGED veo
    /\ UNCHANGED <<worldVars, appVars, cameraVars, mounts, img, hasKey>>

\* promptApiKeySelection returned; handleGenerate returns
VeoKeyPrompted(t) ==
    /\ tasks[t].pc = "promptApiKey"
    /\ \E selected \in BOOLEAN : hasKey' = (hasKey \/ selected)
    /\ tasks' = [tasks EXCEPT ![t].pc = "done"]
    /\ UNCHANGED <<worldVars, appVars, cameraVars, mounts, veo, img>>

\* the operation as the service reports it; the URI comes with completion
Operations ==
    {[done |-> FALSE, uri |-> FALSE], [done |-> TRUE, uri |-> FALSE],
     [done |-> TRUE, uri |-> TRUE]}

\* the call returns or throws
Return(task, result) == [task EXCEPT !.pc = "done", !.result = result]

\* generateVideo from the loop test on, up to the next await
AfterOperation(task) ==
    IF KeepPolling(task.operation) THEN [task EXCEPT !.pc = "sleep"]
    ELSE IF ~task.operation.uri THEN Return(task, Err("No video URI returned"))
    ELSE [task EXCEPT !.pc = "fetch", !.fetched = "pending"]

\* mutant: the catch block of the image editor leaves the busy flag set
ImgSettledBusy(result) ==
    IF result.ok
    THEN [isGenerating |-> TRUE, resultImageUrl |-> result.value, error |-> Null]
    ELSE [isGenerating |-> FALSE, resultImageUrl |-> Null, error |-> result.value]

\* the state VeoStudio.handleGenerate sets after generateVideo
VeoSettled(result) ==
    IF result.ok
    THEN [isGenerating |-> FALSE, videoUrl |-> result.value, error |-> Null, progress |-> ""]
    ELSE [isGenerating |-> FALSE, videoUrl |-> Null,
          error |-> IF result.value = Undefined THEN "Generation failed" ELSE result.value,
          progress |-> ""]

\* the state ImageEditor.handleGenerate sets after editImage
ImgSettled(result) ==
    IF result.ok
    THEN [isGenerating |-> FALSE, resultImageUrl |-> result.value, error |-> Null]
    ELSE [isGenerating |-> FALSE, resultImageUrl |-> Null, error |-> result.value]

\* call t moves on to task; when that ends the call, try/catch sets the state
Continue(t, task) ==
    /\ tasks' = [tasks EXCEPT ![t] = task]
    /\ IF task.pc = "done" /\ task.kind = "VEO"
       THEN veo' = VeoSetState(t, VeoSettled(task.result))
       ELSE UNCHANGED veo
    /\ IF task.pc = "done" /\ task.kind = "IMG"
       THEN img' = ImgSetState(t, ImgSettled(task.result))
       ELSE UNCHANGED img
    /\ UNCHANGED <<worldVars, appVars, cameraVars, mounts, hasKey>>

\* ImageEditor.handleGenerate up to its await; the button is enabled.
\* budget bounds the calls explored
ImgSubmit(budget) ==
    /\ activeSection = "IMAGE_EDITOR"
    /\ img.file /\ img.prompt # "" /\ ~img.state.isGenerating
    /\ Len(tasks) < budget
    /\ img' = [img EXCEPT !.state = [@ EXCEPT !.isGenerating = TRUE, !.error = Null]]
    /\ tasks' = Append(tasks, [NewTask("IMG", "readFile", img.state) EXCEPT !.called = 1])
    /\ UNCHANGED <<worldVars, appVars, cameraVars, mounts, veo, hasKey>>

ImgClick == ImgSubmit(MaxSubmits)

\* fileToBase64: the reader loads the file, or onerror rejects with the
\* event, which has no message
FileRead(t) ==
    /\ tasks[t].pc = "readFile"
    /\ \/ Continue(t, [tasks[t] EXCEPT !.pc = "generate"])
       \/ Continue(t, Return(tasks[t], Err(Undefined)))

\* ai.models.generateVideos answered
VeoStarted(t) ==
    /\ tasks[t].pc = "generate" /\ tasks[t].kind = "VEO"
    /\ \/ \E op \in Operations : Continue(t, AfterOperation([tasks[t] EXCEPT !.operation = op]))
       \/ Continue(t, Return(tasks[t], Err(NetworkError)))

\* the ten seconds are over: getVideosOperation is called
VeoSlept(t) ==
    /\ tasks[t].pc = "sleep"
    /\ Continue(t, [tasks[t] EXCEPT !.pc = "query", !.waits = @ + 1])

\* getVideosOperation answered
VeoPolled(t) ==
    /\ tasks[t].pc = "query"
    /\ \/ \E op \in Operations :
             /\ op.done \/ tasks[t].queries + 1 < MaxPolls
             /\ Continue(t, AfterOperation([tasks[t] EXCEPT !.operation = op,
                                                            !.queries = @ + 1]))
       \/ Continue(t, Return([tasks[t] EXCEPT !.queries = @ + 1], Err(NetworkError)))

\* fetch answered
VeoFetched(t) ==
    /\ tasks[t].pc = "fetch"
    /\ \/ Continue(t, [tasks[t] EXCEPT !.pc = "blob", !.fetched = "ok"])
       \/ Continue(t, Return([tasks[t] EXCEPT !.fetched = "notOk"],
                             Err("Failed to download video")))
       \/ Continue(t, Return([tasks[t] EXCEPT !.fetched = "failed"], Err(NetworkError)))

\* response.blob() answered: URL.createObjectURL(blob) is returned
VeoBlobRead(t) ==
    /\ tasks[t].pc = "blob"
    /\ \E video \in Videos :
          Continue(t, Return([tasks[t] EXCEPT !.blob = video], Ok(BlobUrl(video))))

\* ai.models.generateContent answered
ImgResponded(t) ==
    /\ tasks[t].pc = "generate" /\ tasks[t].kind = "IMG"
    /\ \/ \E response \in Responses :
             Continue(t, Return([tasks[t] EXCEPT !.responded = TRUE,
                                                   !.response = response],
                                ExtractImage(response)))
       \/ Continue(t, Return(tasks[t], Err(NetworkError)))

Init == InitWorld /\ InitApp /\ InitCamera /\ InitPanels /\ hasKey = FALSE

\* the vehicle has been driven to a spot and stopped there
InitParked ==
    /\ InitCar /\ position \in ParkSpots
    /\ crates = WallCrates \o [i \in 1..NumScattered |-> ScatteredCrate(<<1500, 3000>>)]
    /\ InitApp /\ InitCamera /\ InitPanels
    /\ hasKey \in BOOLEAN

\* offsets from a zone centre, per axis: inside, at the edge and outside
ZoneOffsets == {-601, 0, 597, 599, 800}

\* places around the five zones where the vehicle has been parked
ZoneSpots ==
    {Vec(Triggers[i].pos.x + dx, 50, Triggers[i].pos.z + dz) :
        i \in Zones, dx \in ZoneOffsets, dz \in ZoneOffsets}

\* the vehicle has been driven to a zone and stopped there
InitZones ==
    /\ InitCar /\ position \in ZoneSpots
    /\ crates = WallCrates \o [i \in 1..NumScattered |-> ScatteredCrate(<<1500, 3000>>)]
    /\ InitApp /\ InitCamera /\ InitPanels
    /\ hasKey = FALSE

\* a generation panel is open with its form filled in: the vehicle stands on
\* the zone, Enter was pressed once, a file (and an instruction) was chosen
InitStudio ==
    /\ InitCar /\ InitCamera
    /\ crates = WallCrates \o [i \in 1..NumScattered |-> ScatteredCrate(<<1500, 3000>>)]
    /\ \E i \in {4, 5} :
          /\ position = Vec(Triggers[i].pos.x, 50, Triggers[i].pos.z)
          /\ activeSection = Triggers[i].section
          /\ enterLog = [presses |-> 1, events |-> 1, section |-> Triggers[i].section]
    /\ mounts = 1
    /\ veo = IF activeSection = "VEO_STUDIO" THEN [VeoInitial EXCEPT !.file = TRUE]
             ELSE VeoInitial
    /\ img = IF activeSection = "IMAGE_EDITOR"
             THEN [ImgInitial EXCEPT !.file = TRUE, !.prompt = "remove the background"]
             ELSE ImgInitial
    /\ tasks = <<>>
    /\ hasKey \in BOOLEAN

\* velocities of the vehicle when Enter is pressed: standing, or reversing
\* through the zone at 10 units per second
PassingVelocities == {Zero, Vec(0, 0, 1000)}

\* the Veo Studio panel has just been opened by Enter at the centre of its
\* zone; the scene keeps running behind the overlay
InitOverlay ==
    /\ InitCamera
    /\ keys = {}
    /\ velocity \in PassingVelocities
    /\ rotation = 0
    /\ isBraking = FALSE
    /\ frames = 0
    /\ lastDelta = 0
    /\ active = [i \in Zones |-> i = 4]
    /\ position = Vec(Triggers[4].pos.x, 50, Triggers[4].pos.z)
    /\ crates = WallCrates \o [i \in 1..NumScattered |-> ScatteredCrate(<<1500, 3000>>)]
    /\ activeSection = Triggers[4].section
    /\ enterLog = [presses |-> 1, events |-> 1, section |-> Triggers[4].section]
    /\ mounts = 1
    /\ veo = VeoInitial
    /\ img = ImgInitial
    /\ tasks = <<>>
    /\ hasKey = FALSE

\* clicks on the button of the open panel
StudioVeoClick == VeoSubmit(MaxClicks)

StudioImgClick == ImgSubmit(MaxClicks)

NextWorld == KeyDown \/ KeyUp \/ Frame

SpecWorld == Init /\ [][NextWorld]_vars

NextIdle == IdleFrame

SpecIdle == Init /\ [][NextIdle]_vars /\ WF_vars(IdleFrame)

NextCamera == EnterKey \/ CloseOverlay \/ Wheel

SpecCamera == InitParked /\ [][NextCamera]_vars

NextZones == Frame \/ EnterKey \/ CloseOverlay

SpecZones == InitZones /\ [][NextZones]_vars

NextPanels ==
    \/ EnterKey
    \/ CloseOverlay
    \/ SelectFile
    \/ SetPrompt
    \/ VeoClick
    \/ ImgClick
    \/ \E t \in DOMAIN tasks : VeoKeyChecked(t)
    \/ \E t \in DOMAIN tasks : VeoKeyPrompted(t)
    \/ \E t \in DOMAIN tasks : FileRead(t)
    \/ \E t \in DOMAIN tasks : VeoStarted(t)
    \/ \E t \in DOMAIN tasks : VeoSlept(t)
    \/ \E t \in DOMAIN tasks : VeoPolled(t)
    \/ \E t \in DOMAIN tasks : VeoFetched(t)
    \/ \E t \in DOMAIN tasks : VeoBlobRead(t)
    \/ \E t \in DOMAIN tasks : ImgResponded(t)

SpecPanels == InitParked /\ [][NextPanels]_vars

\* the window listeners and the render loop while a panel is on screen
NextOverlay == KeyDown \/ KeyUp \/ Frame \/ EnterKey \/ CloseOverlay

SpecOverlay == InitOverlay /\ [][NextOverlay]_vars

NextStudio ==
    \/ StudioVeoClick
    \/ StudioImgClick
    \/ \E t \in DOMAIN tasks : VeoKeyChecked(t)
    \/ \E t \in DOMAIN tasks : VeoKeyPrompted(t)
    \/ \E t \in DOMAIN tasks : FileRead(t)
    \/ \E t \in DOMAIN tasks : VeoStarted(t)
    \/ \E t \in DOMAIN tasks : VeoSlept(t)
    \/ \E t \in DOMAIN tasks : VeoPolled(t)
    \/ \E t \in DOMAIN tasks : VeoFetched(t)
    \/ \E t \in DOMAIN tasks : VeoBlobRead(t)
    \/ \E t \in DOMAIN tasks : ImgResponded(t)

SpecStudio == InitStudio /\ [][NextStudio]_vars

(***************************************************************************)
(* Claims                                                                  *)
(***************************************************************************)
\* a step of the render loop, as opposed to a key event
IsFrame == lastDelta' \in Deltas /\ keys' = keys

\* the distance from p to q is below r
Within(p, q, r) ==
    LET d == VSub(p, q)
    IN  /\ Abs(d.x) < r
        /\ Abs(d.y) < r
        /\ Abs(d.z) < r
        /\ d.x * d.x + d.y * d.y + d.z * d.z < r * r

\* C1: after every vehicle-controller frame the vehicle position satisfies
\* |x| <= 95 and |z| <= 95
VehicleInBounds == Abs(position.x) <= 9500 /\ Abs(position.z) <= 9500

\* a frame has put the vehicle on the bound, moving back inwards
VehicleOnBound ==
    /\ frames > 0
    /\ \/ Abs(position.x) = 9500 /\ Sign(velocity.x) = -Sign(position.x)
       \/ Abs(position.z) = 9500 /\ Sign(velocity.z) = -Sign(position.z)

\* C2: at the end of a crate-physics frame every crate's vertical position is at
\* least the resting height 0.5
CratesAboveRest == \A i \in DOMAIN crates : crates[i].position.y >= 50

\* the slack allowed to C3 for rounding, in 1/100
Tolerance == 2

\* C3: a crate closer to the vehicle than 2.8 in a frame is, after that frame's
\* collision resolution, at least 2.8 (less the tolerance) from the vehicle
CrateSeparated ==
    [][IsFrame =>
        \A i \in DOMAIN crates :
            Within(CrateFall(crates[i], lastDelta').position, position, 280)
                => ~Within(crates'[i].position, position, 280 - Tolerance)]_vars

\* the crates that start above the resting height
StartsAbove == {i \in 1..(3 * NumWallColumns) : WallCrates[i].position.y > 50}

\* C9: a crate that starts above the resting height and is never within
\* collision range of the vehicle eventually has vertical position 0.5 and
\* vertical velocity 0, and keeps them from then on
CrateComesToRest ==
    \A i \in StartsAbove :
        <>[](\/ Within(crates[i].position, position, 280)
             \/ crates[i].position.y = 50 /\ crates[i].velocity.y = 0)

\* a crate of the upper rows has fallen and lies at the resting height
CrateLanded ==
    /\ lastDelta # 0
    /\ \E i \in StartsAbove : crates[i].position.y = 50 /\ crates[i].velocity.y = 0

\* C10: in a frame whose tentative position exceeds 95 on an axis, the position
\* on that axis becomes +95 or -95 with the sign of the overshoot and the
\* velocity component v becomes -v/2 before friction; the component of an axis
\* that is within the bound gets the friction factor only
BounceLaw ==
    [][(IsFrame /\ "KeyR" \notin keys) =>
        LET pre    == ApplyThrottle(velocity, keys, rotation, lastDelta')
            newPos == VAdd(position, VScale(pre, lastDelta', 1000))
            Law(np, v, p1, v1) ==
                IF Abs(np) > 9500
                THEN /\ p1 = (IF np > 0 THEN 9500 ELSE -9500)
                     /\ v1 = RoundDiv(-RoundDiv(v, 2) * 97, 100)
                ELSE /\ p1 = np
                     /\ v1 = RoundDiv(v * 97, 100)
        IN  /\ Law(newPos.x, pre.x, position'.x, velocity'.x)
            /\ Law(newPos.z, pre.z, position'.z, velocity'.z)]_vars

\* the vehicle has bounced on the x bound alone while moving along z as well
BouncedOnXOnly ==
    /\ frames > 0
    /\ Abs(position.x) = 9500
    /\ Sign(velocity.x) = -Sign(position.x)
    /\ Abs(position.z) < 9500
    /\ velocity.z # 0

\* C4: after any sequence of wheel events the zoom distance lies in [5, 40],
\* and a wheel event whose scaled delta (0.02 per pixel) would take the
\* distance past a bound leaves it exactly at that bound.  As stated, for every
\* wheel event: this fails, the handler returns early while an overlay is open.
ZoomClamped ==
    /\ 500 <= distance /\ distance <= 4000
    /\ lastWheel.from + 2 * lastWheel.deltaY > 4000 => distance = 4000
    /\ lastWheel.from + 2 * lastWheel.deltaY < 500 => distance = 500

\* C4, amended: the zoom distance always lies in [5, 40]; a wheel event
\* received while no overlay is open leaves the distance at the sum clamped
\* to [5, 40], hence exactly at the bound the sum would pass; a wheel event
\* received while an overlay is open leaves the distance as it was.
ZoomClampedUnlessOverlay ==
    LET sum == lastWheel.from + 2 * lastWheel.deltaY
    IN  /\ 500 <= distance /\ distance <= 4000
        /\ ~lastWheel.open =>
              /\ sum > 4000 => distance = 4000
              /\ sum < 500 => distance = 500
              /\ sum >= 500 /\ sum <= 4000 => distance = sum
        /\ lastWheel.open => distance = lastWheel.from

\* a wheel event with no overlay open would have gone past 40 and stopped at 40
ZoomStoppedAtMax ==
    /\ ~lastWheel.open
    /\ lastWheel.from < 4000
    /\ lastWheel.from + 2 * lastWheel.deltaY > 4000
    /\ distance = 4000

\* the state of the panel that made call t
PanelState(t) == IF tasks[t].kind = "VEO" THEN veo.state ELSE img.state

\* the result field of a panel state
ResultUrl(kind, state) == IF kind = "VEO" THEN state.videoUrl ELSE state.resultImageUrl

\* call t ends in this step after its gateway call failed, its panel on screen
GatewayCallFails(t) ==
    /\ Running(t) /\ Mounted(t)
    /\ tasks[t].called = 1
    /\ tasks'[t].pc = "done"
    /\ ~tasks'[t].result.ok

\* C5: in both panels, when the gateway call of a started generation fails, the
\* panel ends with isGenerating = false, its result cleared and its error field
\* set to a message, the message of the failure when it has one; and no call
\* of handleGenerate calls the gateway more than once (no retry).
FailureShown ==
    /\ [][\A t \in DOMAIN tasks :
            GatewayCallFails(t) =>
                /\ ~PanelState(t)'.isGenerating
                /\ ResultUrl(tasks[t].kind, PanelState(t)') = "null"
                /\ PanelState(t)'.error \notin {"null", "undefined"}
                /\ tasks'[t].result.value # "undefined" =>
                       PanelState(t)'.error = tasks'[t].result.value]_vars
    /\ [](\A t \in DOMAIN tasks : tasks[t].called <= 1)

PartsOfFirstCandidate(response) ==
    IF response = <<>> THEN <<>>
    ELSE IF Head(response).content THEN Head(response).parts ELSE <<>>

\* the positions of the parts that carry inline data
InlineAt(parts) == {i \in DOMAIN parts : parts[i].inlineData # "null"}

\* C7: editImage fails exactly when the first candidate of the response has no
\* part with inline data (no candidate and no parts included), and otherwise
\* returns the data URL of the first part that carries inline data.
ImageFromFirstInlinePart ==
    \A t \in DOMAIN tasks :
        tasks[t].kind = "IMG" /\ tasks[t].responded =>
            LET parts == PartsOfFirstCandidate(tasks[t].response)
                at == InlineAt(parts)
            IN  /\ tasks[t].pc = "done"
                /\ tasks[t].result.ok <=> at # {}
                /\ at = {} =>
                      tasks[t].result.value = "No image generated in response"
                /\ at # {} =>
                      \E i \in at :
                          /\ \A j \in at : i <= j
                          /\ tasks[t].result.value =
                                "data:image/png;base64," \o parts[i].inlineData

\* a response whose first candidate holds two images: the first was returned
FirstOfTwoImagesReturned ==
    \E t \in DOMAIN tasks :
        /\ tasks[t].kind = "IMG" /\ tasks[t].responded
        /\ Len(tasks[t].response) = 2
        /\ tasks[t].response[1].parts = <<[inlineData |-> "A"], [inlineData |-> "B"]>>
        /\ tasks[t].result = [ok |-> TRUE, value |-> "data:image/png;base64,A"]

\* call t of the image editor ends in this step with an image, its panel on screen
ImageArrives(t) ==
    /\ tasks[t].kind = "IMG"
    /\ Running(t) /\ Mounted(t)
    /\ tasks'[t].pc = "done"
    /\ tasks'[t].result.ok

\* C8: a call of the image editor is made with a file and a non-empty
\* prompt; while it runs and its panel is on screen isGenerating is true; when
\* the gateway returns an image the panel ends with resultImageUrl equal to the
\* data URL of exactly that image, error = null and isGenerating = false.
ImageShown ==
    /\ [][\A t \in DOMAIN tasks' \ DOMAIN tasks :
            tasks'[t].kind = "IMG" => img.file /\ img.prompt # ""]_vars
    /\ [](\A t \in DOMAIN tasks :
            tasks[t].kind = "IMG" /\ Running(t) /\ Mounted(t) => img.state.isGenerating)
    /\ [][\A t \in DOMAIN tasks :
            ImageArrives(t) =>
                \E i \in InlineAt(PartsOfFirstCandidate(tasks'[t].response)) :
                    img'.state =
                        [isGenerating |-> FALSE,
                         resultImageUrl |-> "data:image/png;base64," \o
                             PartsOfFirstCandidate(tasks'[t].response)[i].inlineData,
                         error |-> "null"]]_vars

\* the image editor shows image A after a generation
ImageAOnScreen ==
    /\ activeSection = "IMAGE_EDITOR"
    /\ \E t \in DOMAIN tasks : tasks[t].pc = "done" /\ Mounted(t) /\ tasks[t].result.ok
    /\ img.state = [isGenerating |-> FALSE,
                    resultImageUrl |-> "data:image/png;base64,A", error |-> "null"]

\* a rendered frame of the bounded render loop
IsRenderedFrame == frames' = frames + 1

\* C11: in a frame with no accelerate, brake or reset key held and no bound
\* hit, each velocity component is multiplied by 0.97 (rounded to the model's
\* unit) whatever the frame delta, and no component grows in magnitude; over a
\* run of such frames the speed is therefore speed(0) x 0.97^t and never
\* increases.
FrictionDecay ==
    [][(/\ IsRenderedFrame
        /\ keys \cap {"ArrowUp", "KeyW", "ArrowDown", "KeyS", "KeyR"} = {}
        /\ Abs(position.x + RoundDiv(velocity.x * lastDelta', 1000)) <= 9500
        /\ Abs(position.z + RoundDiv(velocity.z * lastDelta', 1000)) <= 9500) =>
            /\ velocity'.x = RoundDiv(97 * velocity.x, 100)
            /\ velocity'.y = RoundDiv(97 * velocity.y, 100)
            /\ velocity'.z = RoundDiv(97 * velocity.z, 100)
            /\ Abs(velocity'.x) <= Abs(velocity.x)
            /\ Abs(velocity'.z) <= Abs(velocity.z)]_vars

\* one 16 ms frame of acceleration from rest (0.62 after friction), then one
\* frame of coasting: 0.60
CoastedOneFrame ==
    /\ frames = 2
    /\ keys = {}
    /\ velocity = [x |-> 0, y |-> 0, z |-> -60]

\* the planar (x, z) centres of the five zones: About, Skills, Contact, Veo
\* Studio, Image Editor
ZoneCentres == << <<0, -2500>>, <<2500, 0>>, <<0, 2500>>, <<-2500, -800>>, <<-2500, 800>> >>

\* the square of the planar distance from the vehicle to the centre of zone i
PlanarSq(i) ==
    (position.x - ZoneCentres[i][1]) * (position.x - ZoneCentres[i][1])
        + (position.z - ZoneCentres[i][2]) * (position.z - ZoneCentres[i][2])

\* C12: for each of the five zones, a frame that finds the vehicle exactly at
\* the zone's planar centre leaves the zone's active flag true, and a frame that
\* finds it at a planar distance above the activation radius 6 leaves it false.
ZoneFlagAtCentreAndOutside ==
    [][IsRenderedFrame =>
        \A i \in 1..5 :
            /\ PlanarSq(i) = 0 => active'[i]
            /\ PlanarSq(i) > 600 * 600 => ~active'[i]]_vars

\* a frame has found the vehicle at the centre of a zone and set its flag
ZoneActiveAtCentre ==
    /\ frames > 0
    /\ \E i \in 1..5 : PlanarSq(i) = 0 /\ active[i]

\* C13: while an overlay panel is open (ActiveSection is not HOME) no event,
\* wheel events included, changes the zoom distance; opening and closing a
\* panel keep the distance; and a wheel event with no panel open, the first
\* after a close included, moves the distance from the value it has by 0.02
\* per pixel, within [5, 40].
ZoomFrozenUnderOverlay ==
    [][/\ activeSection # "HOME" => distance' = distance
       /\ activeSection' # activeSection => distance' = distance
       /\ (activeSection = "HOME" /\ lastWheel' # lastWheel) =>
             LET sum == distance + 2 * lastWheel'.deltaY
             IN  distance' = IF sum > 4000 THEN 4000 ELSE IF sum < 500 THEN 500 ELSE sum]_vars

\* the last wheel event came while a panel was open and changed nothing
WheelIgnoredUnderOverlay ==
    /\ lastWheel.open
    /\ lastWheel.deltaY # 0
    /\ activeSection # "HOME"
    /\ distance = lastWheel.from

\* C14: a call of VeoStudio.handleGenerate that finds no API key goes on to
\* the key selection prompt and from there returns; it never calls the gateway
\* and neither step changes the state of the panel, which is idle
\* (isGenerating = false) with its error and result as they were.
NoKeyNoGeneration ==
    [][\A t \in DOMAIN tasks :
          /\ (tasks[t].pc = "checkApiKey" /\ ~hasKey /\ tasks'[t].pc # "checkApiKey") =>
                /\ tasks'[t].pc = "promptApiKey"
                /\ tasks'[t].called = 0
                /\ veo' = veo
                /\ activeSection = "VEO_STUDIO" => ~veo'.state.isGenerating
          /\ (tasks[t].pc = "promptApiKey" /\ tasks'[t].pc # "promptApiKey") =>
                /\ tasks'[t].pc = "done"
                /\ tasks'[t].called = 0
                /\ veo' = veo]_vars

\* a submission without a key has come back from the prompt, still without one
ReturnedFromKeyPrompt ==
    /\ ~hasKey
    /\ activeSection = "VEO_STUDIO"
    /\ \E t \in DOMAIN tasks :
          /\ tasks[t].kind = "VEO" /\ tasks[t].inst = mounts
          /\ tasks[t].pc = "done" /\ tasks[t].called = 0
    /\ veo.file
    /\ veo.state = [isGenerating |-> FALSE, videoUrl |-> "null", error |-> "null",
                    progress |-> ""]

\* call t was made by a panel that has been closed since
PanelClosedSince(t) ==
    \/ tasks[t].inst # mounts
    \/ activeSection # (IF tasks[t].kind = "VEO" THEN "VEO_STUDIO" ELSE "IMAGE_EDITOR")

IdleVeo == [isGenerating |-> FALSE, videoUrl |-> "null", error |-> "null", progress |-> ""]

IdleImg == [isGenerating |-> FALSE, resultImageUrl |-> "null", error |-> "null"]

\* C15: closing the overlay sets ActiveSection to HOME in that step and leaves
\* every call in flight as it is; a step of a call whose panel has been closed,
\* its completion or failure included, changes neither ActiveSection nor the
\* state of the panels; and a panel opened afterwards starts idle with no
\* result and no error.
ClosedPanelIgnoresResult ==
    [][/\ (activeSection # "HOME" /\ activeSection' = "HOME") => tasks' = tasks
       /\ \A t \in DOMAIN tasks :
             (PanelClosedSince(t) /\ tasks'[t] # tasks[t]) =>
                 /\ activeSection' = activeSection
                 /\ veo' = veo /\ img' = img
       /\ mounts' # mounts =>
             /\ veo'.state = IdleVeo /\ ~veo'.file
             /\ img'.state = IdleImg /\ ~img'.file]_vars

\* a generation is in flight, its panel was closed, and the panel opened
\* after it is idle
InFlightAfterReopen ==
    /\ activeSection \in {"VEO_STUDIO", "IMAGE_EDITOR"}
    /\ mounts = 2
    /\ \E t \in DOMAIN tasks :
          /\ tasks[t].inst = 1 /\ tasks[t].called = 1
          /\ tasks[t].pc \in {"blob", "generate"}
    /\ veo.state = IdleVeo /\ img.state = IdleImg

\* C16: at the end of every vehicle-controller frame, frames with reset held
\* included, the braking flag is true exactly when a brake/reverse key is held
\* and no accelerate key is held in that frame.
BrakeFlagFollowsThrottle ==
    [][IsRenderedFrame =>
        isBraking' = (/\ keys \cap {"ArrowDown", "KeyS"} # {}
                      /\ keys \cap {"ArrowUp", "KeyW"} = {})]_vars

\* the same for the frames without reset held: this holds, a frame with reset
\* held returns before the flag is assigned
BrakeFlagFollowsThrottleUnlessReset ==
    [][(IsRenderedFrame /\ "KeyR" \notin keys) =>
        isBraking' = (/\ keys \cap {"ArrowDown", "KeyS"} # {}
                      /\ keys \cap {"ArrowUp", "KeyW"} = {})]_vars

\* C17: every frame in which the reset key is held ends with velocity
\* (0, 0, 0), position (0, 0.5, 0) and heading 0, whatever other keys are held
\* and whatever the state before: throttle, boost, steering, bounds and
\* friction leave no trace in that frame.
ResetWins ==
    [][(IsRenderedFrame /\ "KeyR" \in keys) =>
        /\ velocity' = [x |-> 0, y |-> 0, z |-> 0]
        /\ position' = [x |-> 0, y |-> 50, z |-> 0]
        /\ rotation' = 0]_vars

\* the vehicle was backed away from the origin in one frame and reset in the
\* next, the reverse and a steering key still held
ResetAfterReversing ==
    /\ frames = 2
    /\ {"KeyR", "ArrowDown", "ArrowLeft"} \subseteq keys
    /\ isBraking
    /\ position = [x |-> 0, y |-> 50, z |-> 0]
    /\ velocity = [x |-> 0, y |-> 0, z |-> 0]
    /\ rotation = 0

\* C18: for every zone and every vehicle position, a frame leaves the zone's
\* active flag true exactly when the planar (x, z) distance from the vehicle to
\* the zone centre is below the activation radius 6.
ZoneFlagIsPlanarDistance ==
    [][IsRenderedFrame =>
        \A i \in 1..5 : active'[i] <=> PlanarSq(i) < 600 * 600]_vars

\* the same with the distance taken in space, the vehicle riding 0.5 above the
\* plane of the zone centres: this holds
ZoneFlagIsSpatialDistance ==
    [][IsRenderedFrame =>
        \A i \in 1..5 :
            active'[i] <=> PlanarSq(i) + position.y * position.y < 600 * 600]_vars

\* the sections of the five zones in the configured order
ZoneSections == <<"ABOUT", "SKILLS", "CONTACT", "VEO_STUDIO", "IMAGE_EDITOR">>

\* the zones whose centre is less than the activation radius 6 from the vehicle
NearZones == {i \in 1..5 : PlanarSq(i) + position.y * position.y < 600 * 600}

\* C19: an Enter key-down with at least one zone within the activation radius
\* of the vehicle emits exactly one section-entered event, with the section of
\* the first such zone in the configured order, and ActiveSection becomes that
\* section; with no zone within the radius it emits no event and leaves
\* ActiveSection unchanged.
EnterEmitsFirstZone ==
    [][enterLog'.presses = enterLog.presses + 1 =>
        IF NearZones # {}
        THEN \E first \in NearZones :
                /\ \A j \in NearZones : first <= j
                /\ enterLog'.events = enterLog.events + 1
                /\ enterLog'.section = ZoneSections[first]
                /\ activeSection' = ZoneSections[first]
        ELSE /\ enterLog'.events = enterLog.events
             /\ activeSection' = activeSection]_vars

\* Enter was pressed in the image editor zone and opened that panel
EnteredImageEditor ==
    /\ enterLog.presses = 1 /\ enterLog.events = 1
    /\ enterLog.section = "IMAGE_EDITOR"
    /\ activeSection = "IMAGE_EDITOR"
    /\ 5 \in NearZones

\* C20: the centres of any two of the five zones are more than twice the
\* activation radius (12) apart, and at most one zone is within the radius 6
\* of the vehicle, wherever inside the world bound the vehicle is.
AtMostOneZoneNear ==
    /\ \A i, j \in 1..5 :
          i # j =>
            (Triggers[i].pos.x - Triggers[j].pos.x) * (Triggers[i].pos.x - Triggers[j].pos.x)
              + (Triggers[i].pos.z - Triggers[j].pos.z) * (Triggers[i].pos.z - Triggers[j].pos.z)
              > 1200 * 1200
    /\ Abs(position.x) <= 9500 /\ Abs(position.z) <= 9500 =>
          Cardinality({i \in 1..5 : Within(Triggers[i].pos, position, 600)}) <= 1

\* the vehicle stands half way between the two closest zones, Veo Studio and
\* Image Editor, 8 from either centre, and a frame has found neither in range
BetweenTwoZones ==
    /\ position = [x |-> -2500, y |-> 50, z |-> 0]
    /\ frames > 0
    /\ \A i \in 1..5 : ~active[i]

\* C21: in a frame without reset the input changes the velocity by
\* -throttle x a x delta x (sin(heading), cos(heading)) on (x, z), with
\* throttle = accelerate - brake, a = 80 forward with boost, 40 forward
\* without, 30 in reverse with or without boost; with both or neither of
\* accelerate and brake held the input adds nothing.  Observed after the
\* frame's friction, on every axis whose bound was not hit.
InputAcceleration ==
    [][(IsRenderedFrame /\ "KeyR" \notin keys) =>
        LET up       == Held(keys, {"ArrowUp", "KeyW"})
            down     == Held(keys, {"ArrowDown", "KeyS"})
            boost    == Held(keys, {"ShiftLeft", "ShiftRight"})
            throttle == (IF up THEN 1 ELSE 0) - (IF down THEN 1 ELSE 0)
            a        == IF throttle > 0 THEN (IF boost THEN 8000 ELSE 4000) ELSE 3000
            dv       == RoundDiv(throttle * a * lastDelta', 1000)
            inX      == velocity.x - RoundDiv(Sin(rotation) * dv, 1000)
            inZ      == velocity.z - RoundDiv(Cos(rotation) * dv, 1000)
        IN  /\ (up = down) => (inX = velocity.x /\ inZ = velocity.z)
            /\ Abs(position'.x) < 9500 => velocity'.x = RoundDiv(97 * inX, 100)
            /\ Abs(position'.z) < 9500 => velocity'.z = RoundDiv(97 * inZ, 100)
            /\ velocity'.y = RoundDiv(97 * velocity.y, 100)]_vars

\* a boosted reverse frame at a heading the first frame steered to: the
\* vehicle gained speed along +x and +z
ReversedWithBoostWhileTurned ==
    /\ frames = 2
    /\ keys = {"ArrowDown", "ShiftLeft"}
    /\ isBraking
    /\ rotation = 48
    /\ lastDelta = 1500
    /\ velocity.x > 0
    /\ velocity.z > 4000
    /\ Abs(position.x) < 9500
    /\ Abs(position.z) < 9500

\* the generation requests of the mounted panel that are in flight: the
\* gateway was called and has neither returned nor thrown
InFlight == {t \in DOMAIN tasks : Mounted(t) /\ tasks[t].called > 0 /\ Running(t)}

\* C22: for the mounted Veo Studio or Image Editor panel, under every
\* interleaving of clicks with the key check and the gateway's completion, at
\* most one generation request of the panel is in flight, and isGenerating is
\* true whenever one is.
OneGenerationInFlight ==
    /\ Cardinality(InFlight) <= 1
    /\ \A t \in InFlight :
          IF tasks[t].kind = "VEO" THEN veo.state.isGenerating
          ELSE img.state.isGenerating

\* the Image Editor sets isGenerating in the click itself: its part of C22
OneImageEditInFlight ==
    activeSection = "IMAGE_EDITOR" => OneGenerationInFlight

\* two clicks on the Veo button, both before the key check answered
TwoVideosInFlight ==
    /\ activeSection = "VEO_STUDIO"
    /\ Cardinality(InFlight) = 2

\* the first of two video requests returned while the second still runs
VideoInFlightWhileIdle ==
    /\ activeSection = "VEO_STUDIO"
    /\ Cardinality(InFlight) = 1
    /\ ~veo.state.isGenerating

\* C23: while an overlay panel is open, ActiveSection changes only through
\* the close action, to HOME: no key pressed while the overlay is open
\* (driving keys, reset, Enter) replaces the open panel with a different one.
OpenPanelOnlyCloses ==
    [][isOverlayOpen => activeSection' \in {activeSection, "HOME"}]_vars

\* Enter pressed behind the Veo Studio panel, the vehicle having rolled into
\* the Image Editor zone
PanelReplacedBehindOverlay ==
    /\ activeSection = "IMAGE_EDITOR"
    /\ enterLog = [presses |-> 2, events |-> 2, section |-> "IMAGE_EDITOR"]
    /\ mounts = 2

\* the vehicle a frame leaves, from the vehicle before it, the held keys and
\* the frame delta alone
VehicleAlone(p, v, rot, ks, delta) ==
    IF "KeyR" \in ks THEN [position |-> Origin, velocity |-> Zero]
    ELSE LET pre    == ApplyThrottle(v, ks, rot, delta)
             newPos == Advance(p, pre, delta)
         IN  [position |-> Vec(ClampAxis(newPos.x), newPos.y, ClampAxis(newPos.z)),
              velocity |-> Friction(Vec(BounceAxis(newPos.x, pre.x), pre.y,
                                        BounceAxis(newPos.z, pre.z)))]

\* some crate is within the collision distance of the vehicle when the frame
\* starts, and the vehicle is moving
HitsCrate ==
    /\ velocity # Zero
    /\ \E i \in DOMAIN crates : Colliding(crates[i].position, position)

\* C24: the crate physics step never changes the vehicle's position or
\* velocity: after a frame they are what the previous vehicle state, the held
\* keys and the delta give, whatever the crate positions are, a frame in which
\* the moving vehicle hits a crate included; and the number of crates is the
\* same in every frame.
CratesLeaveVehicleAlone ==
    [][IsRenderedFrame =>
        /\ position' = VehicleAlone(position, velocity, rotation, keys, lastDelta').position
        /\ velocity' = VehicleAlone(position, velocity, rotation, keys, lastDelta').velocity
        /\ Len(crates') = Len(crates)
        /\ HitsCrate => \E i \in DOMAIN crates : crates'[i].velocity # crates[i].velocity]_vars

\* the moving vehicle has knocked the crate beside the start into motion, and
\* all four crates are still there
CrateKnockedAway ==
    /\ frames = 2
    /\ velocity # Zero
    /\ Len(crates) = 3 * NumWallColumns + NumScattered
    /\ \E i \in DOMAIN crates :
          /\ crates[i].velocity.y > 0
          /\ crates[i].position.y > RestY

====
